---- MODULE Spec2Model ----
(***************************************************************************)
(* Retrieval core of the recipe RAG system: the chunk store                *)
(* (DataPreparationModule), the vector index (IndexConstructionModule),    *)
(* the rank fusion (RetrievalOptimizationModule) and the pipeline that     *)
(* RecipeRAGSystem builds from them.                                       *)
(*                                                                         *)
(* Abstractions.  A uuid4 is a fresh natural number drawn from the counter *)
(* nextId.  The text of a markdown file is the number of chunks the        *)
(* header splitter cuts it into (content[f]; 0 for an empty file).  A      *)
(* Document object is a record of the metadata the code reads; where the   *)
(* code keys on id(doc), the record carries the object's identity in obj.  *)
(* A raised exception is the name of its class in err ("none": the call    *)
(* returned).  Python floats are exact fractions here: a score is a sum of *)
(* at most two reciprocals, which floats order as the fractions do.        *)
(***************************************************************************)
EXTENDS Integers, Sequences, FiniteSets, TLC

VARIABLES
  data_path_exists,   \* environment: the directory data_path exists
  content,            \* environment: file -> number of header sections
  nextId,             \* the next fresh uuid
  documents,          \* DataPreparationModule.documents
  chunks,             \* DataPreparationModule.chunks
  parent_child_map,   \* DataPreparationModule.parent_child_map
  vector_store,       \* IndexConstructionModule.vector_store
  saved_index,        \* the directory index_save_path on disk
  pc,                 \* the process's place in main and run_interactive
  retrieval_module,   \* RecipeRAGSystem.retrieval_module
  op,                 \* the operation called last
  err,                \* what it raised ("none": it returned)
  arg,                \* the sequence it was called with
  top_k,              \* hybrid_search's top_k
  vector_docs,        \* what the vector retriever returned to hybrid_search
  bm25_docs,          \* what the BM25 retriever returned to hybrid_search
  reranked,           \* what _rrf_rerank returned to hybrid_search
  ret                 \* the sequence the operation returned

vars == <<data_path_exists, content, nextId, documents, chunks, parent_child_map,
          vector_store, saved_index, pc, retrieval_module, op, err, arg,
          top_k,
          vector_docs, bm25_docs, reranked, ret>>

envVars == <<data_path_exists, content>>
storeVars == <<documents, chunks, parent_child_map>>
indexVars == <<vector_store, saved_index>>
systemVars == <<pc, retrieval_module>>
queryVars == <<top_k, vector_docs, bm25_docs, reranked>>

(***************************************************************************)
(* Bounds.                                                                 *)
(***************************************************************************)
NumFiles == 2       \* markdown files under data_path
MaxSections == 2    \* header sections of one file
MaxIds == 8         \* uuids drawn in one behaviour
MaxIn == 3          \* length of a sequence handed to an operation
NumChunks == 4      \* chunks known to the two retrievers of the fusion step
MaxLen == 3         \* length of one retriever's ranked list
MaxTopK == 3        \* largest |top_k| asked of hybrid_search
MaxBuild == 2       \* length of a chunk list handed to build_vector_index

Files == 1..NumFiles

(***************************************************************************)
(* Helpers over sequences.                                                 *)
(***************************************************************************)
Range(s) == {s[i] : i \in DOMAIN s}

SeqsUpTo(S, n) == UNION {[1..k -> S] : k \in 0..n}

Injective(s) == \A i, j \in DOMAIN s : i # j => s[i] # s[j]

\* xs[:k] of Python: the first k elements, or all but the last -k when k < 0
Slice(xs, k) ==
  LET n == IF k >= 0 THEN (IF k < Len(xs) THEN k ELSE Len(xs))
                     ELSE (IF Len(xs) + k > 0 THEN Len(xs) + k ELSE 0)
  IN SubSeq(xs, 1, n)

\* A sort key is a fraction <<numerator, denominator>>, denominator > 0.
FracLess(a, b) == a[1] * b[2] < b[1] * a[2]
FracAdd(a, b) == <<a[1] * b[2] + b[1] * a[2], a[2] * b[2]>>

\* insert x behind every element whose key is not below x's
RECURSIVE InsertReverseStable(_, _)
InsertReverseStable(s, x) ==
  IF s = <<>> THEN <<x>>
  ELSE IF FracLess(Head(s).key, x.key) THEN <<x>> \o s
  ELSE <<Head(s)>> \o InsertReverseStable(Tail(s), x)

\* insert x before every element whose key is not above x's
RECURSIVE InsertAscending(_, _)
InsertAscending(s, x) ==
  IF s = <<>> THEN <<x>>
  ELSE IF FracLess(x.key, Head(s).key) THEN <<x>> \o s
  ELSE <<Head(s)>> \o InsertAscending(Tail(s), x)

RECURSIVE SortedAscending(_)
SortedAscending(s) ==
  IF s = <<>> THEN <<>>
  ELSE InsertAscending(SortedAscending(SubSeq(s, 1, Len(s) - 1)), s[Len(s)])

\* sorted(s, key=..., reverse=True): descending by key, equal keys in the
\* order of s; s is a sequence of [key, val]
RECURSIVE SortedReverse(_)
SortedReverse(s) ==
  IF s = <<>> THEN <<>>
  ELSE InsertReverseStable(SortedReverse(SubSeq(s, 1, Len(s) - 1)), s[Len(s)])

\* the keys of a dict in insertion order: each value of s at its first place
RECURSIVE FirstSeen(_)
FirstSeen(s) ==
  IF s = <<>> THEN <<>>
  ELSE LET front == FirstSeen(SubSeq(s, 1, Len(s) - 1))
       IN IF s[Len(s)] \in Range(front) THEN front ELSE Append(front, s[Len(s)])

(***************************************************************************)
(* DataPreparationModule.                                                  *)
(***************************************************************************)
\* metadata.get("parent_id") of a chunk that has none
NoParent == 0

DocIds(docs) == {docs[i].parent_id : i \in DOMAIN docs}
ChunkIds(cs) == {cs[i].chunk_id : i \in DOMAIN cs}

\* the documents load_document builds: one per *.md file under data_path,
\* each with a fresh parent_id; rglob of a missing directory yields nothing
LoadedDocuments(exists, cont, nid) ==
  IF exists
  THEN [f \in Files |->
          [parent_id |-> nid + f - 1, source |-> f, sections |-> cont[f]]]
  ELSE <<>>

\* _markdown_header_split from document d on: the chunks, the map and the
\* uuid counter after it
RECURSIVE MarkdownHeaderSplit(_, _, _, _, _)
MarkdownHeaderSplit(docs, d, all_chunks, pcm, nid) ==
  IF d > Len(docs) THEN [chunks |-> all_chunks, map |-> pcm, nid |-> nid]
  ELSE LET doc == docs[d]
           new == nid..(nid + doc.sections - 1)
           md_chunks == [i \in 1..doc.sections |->
                           [chunk_id |-> nid + i - 1,
                            parent_id |-> doc.parent_id,
                            source |-> doc.source,
                            chunk_index |-> i - 1]]
           pcm2 == [c \in DOMAIN pcm \cup new |->
                      IF c \in new THEN doc.parent_id ELSE pcm[c]]
       IN MarkdownHeaderSplit(docs, d + 1, all_chunks \o md_chunks, pcm2,
                              nid + doc.sections)

\* the chunks a split of docs draws a uuid for
RECURSIVE SectionsIn(_)
SectionsIn(docs) ==
  IF docs = <<>> THEN 0 ELSE Head(docs).sections + SectionsIn(Tail(docs))

\* chunk_document past its guard: split, then number the batch
ChunkedDocuments(docs, pcm, nid) ==
  LET split == MarkdownHeaderSplit(docs, 1, <<>>, pcm, nid)
  IN [split EXCEPT !.chunks =
        [i \in DOMAIN split.chunks |->
           [chunk_id |-> split.chunks[i].chunk_id,
            parent_id |-> split.chunks[i].parent_id,
            source |-> split.chunks[i].source,
            chunk_index |-> split.chunks[i].chunk_index,
            batch_index |-> i - 1]]]

\* what chunk_document raises
ChunkDocumentNoGuard(docs) == "none"

ChunkDocumentError(docs) == IF docs = <<>> THEN "ValueError" ELSE "none"

\* how many of child_chunks name parent p
Relevance(child_chunks, p) ==
  Cardinality({i \in DOMAIN child_chunks : child_chunks[i].parent_id = p})

ParentKeys(child_chunks) ==
  FirstSeen(SelectSeq([i \in DOMAIN child_chunks |-> child_chunks[i].parent_id],
                      LAMBDA p : p # NoParent))

\* the parent of that id, as the scan of self.documents finds it
FindParent(docs, p) ==
  LET hits == {i \in DOMAIN docs : docs[i].parent_id = p}
  IN IF hits = {} THEN <<>>
     ELSE <<docs[CHOOSE i \in hits : \A j \in hits : i <= j]>>

RECURSIVE Concat(_)
Concat(ss) == IF ss = <<>> THEN <<>> ELSE Head(ss) \o Concat(Tail(ss))

\* get_parent_document with the ids sorted ascending
GetParentDocumentAscending(docs, child_chunks) ==
  LET keys == ParentKeys(child_chunks)
      sorted_parent_ids ==
        SortedAscending([i \in DOMAIN keys |->
           [key |-> <<Relevance(child_chunks, keys[i]), 1>>, val |-> keys[i]]])
  IN Concat([i \in DOMAIN sorted_parent_ids |->
               FindParent(docs, sorted_parent_ids[i].val)])

\* get_parent_document
GetParentDocument(docs, child_chunks) ==
  LET keys == ParentKeys(child_chunks)
      sorted_parent_ids ==
        SortedReverse([i \in DOMAIN keys |->
           [key |-> <<Relevance(child_chunks, keys[i]), 1>>, val |-> keys[i]]])
  IN Concat([i \in DOMAIN sorted_parent_ids |->
               FindParent(docs, sorted_parent_ids[i].val)])

(***************************************************************************)
(* IndexConstructionModule.                                                *)
(***************************************************************************)
NoStore == [built |-> FALSE, docs |-> <<>>]

\* the Document objects FAISS.from_texts makes of the chunks' texts and
\* metadata: objects of the vector store's own
FaissDocs(cs) ==
  [i \in DOMAIN cs |-> [obj |-> <<"faiss", cs[i].chunk_id>>,
                        chunk_id |-> cs[i].chunk_id,
                        parent_id |-> cs[i].parent_id]]

\* build_vector_index that drops the old store before it builds
BuildVectorIndexDropsOld(old, cs, collaborator_fails) ==
  IF cs = <<>> THEN [err |-> "ValueError", store |-> NoStore]
  ELSE IF collaborator_fails THEN [err |-> "RuntimeError", store |-> NoStore]
  ELSE [err |-> "none", store |-> [built |-> TRUE, docs |-> FaissDocs(cs)]]

\* build_vector_index: what it raises and self.vector_store after it
BuildVectorIndex(old, cs, collaborator_fails) ==
  IF cs = <<>> THEN [err |-> "ValueError", store |-> old]
  ELSE IF collaborator_fails THEN [err |-> "RuntimeError", store |-> old]
  ELSE [err |-> "none", store |-> [built |-> TRUE, docs |-> FaissDocs(cs)]]

\* save_index: what it raises and the saved directory after it
SaveIndex(store, saved) ==
  IF ~store.built THEN [err |-> "ValueError", saved |-> saved]
  ELSE [err |-> "none", saved |-> store]

\* load_index: self.vector_store after it; a missing directory returns None
\* and leaves self.vector_store as it was
LoadIndex(store, saved) ==
  IF ~saved.built THEN [found |-> FALSE, store |-> store]
  ELSE [found |-> TRUE, store |-> saved]

(***************************************************************************)
(* RetrievalOptimizationModule.                                            *)
(***************************************************************************)
RRF_K == 60
SearchK == 5

NoRetrieval == [ready |-> FALSE, vector_store |-> <<>>, chunks |-> <<>>]

\* the Document objects the BM25 retriever holds for the chunks
Bm25Docs(cs) ==
  [i \in DOMAIN cs |-> [obj |-> <<"bm25", cs[i].chunk_id>>,
                        chunk_id |-> cs[i].chunk_id,
                        parent_id |-> cs[i].parent_id]]

\* what a retriever over docs may return: up to k of them, ranked
RankedLists(docs) ==
  {s \in SeqsUpTo(Range(docs), IF MaxLen < SearchK THEN MaxLen ELSE SearchK) :
     Injective(s)}

\* one scoring loop of _rrf_rerank: rrf_scores after the docs from rank on
RECURSIVE AddRrfScores(_, _, _)
AddRrfScores(rrf_scores, docs, rank) ==
  IF docs = <<>> THEN rrf_scores
  ELSE LET doc_id == Head(docs).obj
           old == IF doc_id \in DOMAIN rrf_scores THEN rrf_scores[doc_id]
                  ELSE <<0, 1>>
       IN AddRrfScores(
            [x \in DOMAIN rrf_scores \cup {doc_id} |->
               IF x = doc_id THEN FracAdd(old, <<1, RRF_K + rank + 1>>)
               ELSE rrf_scores[x]],
            Tail(docs), rank + 1)

\* {id(doc): doc for doc in docs} as its items in insertion order
AllDocs(docs) ==
  LET keys == FirstSeen([i \in DOMAIN docs |-> docs[i].obj])
  IN [i \in DOMAIN keys |->
        docs[CHOOSE j \in DOMAIN docs :
               /\ docs[j].obj = keys[i]
               /\ \A l \in DOMAIN docs : docs[l].obj = keys[i] => l <= j]]

\* _rrf_rerank
RrfRerank(v_docs, b_docs) ==
  LET rrf_scores == AddRrfScores(AddRrfScores(<<>>, v_docs, 0), b_docs, 0)
      all_docs == AllDocs(v_docs \o b_docs)
      sorted_docs == SortedReverse([i \in DOMAIN all_docs |->
                        [key |-> rrf_scores[all_docs[i].obj],
                         val |-> all_docs[i]]])
  IN [i \in DOMAIN sorted_docs |-> sorted_docs[i].val]

\* hybrid_search, given what the two retrievers returned
HybridSearch(v_docs, b_docs, k) == Slice(RrfRerank(v_docs, b_docs), k)

(***************************************************************************)
(* The chunk store on its own: any sequence of calls on one                *)
(* DataPreparationModule, while the environment creates and removes the    *)
(* data directory.                                                         *)
(***************************************************************************)
EmptyMap == [c \in {} |-> 0]

InitCommon ==
  /\ nextId = 1
  /\ documents = <<>>
  /\ chunks = <<>>
  /\ parent_child_map = EmptyMap
  /\ vector_store = NoStore
  /\ saved_index = NoStore
  /\ pc = "main"
  /\ retrieval_module = NoRetrieval
  /\ op = "init"
  /\ err = "none"
  /\ arg = <<>>
  /\ top_k = 0
  /\ vector_docs = <<>>
  /\ bm25_docs = <<>>
  /\ reranked = <<>>
  /\ ret = <<>>

Init ==
  /\ data_path_exists \in BOOLEAN
  /\ content \in [Files -> 0..MaxSections]
  /\ InitCommon

load_document ==
  /\ nextId + (IF data_path_exists THEN NumFiles ELSE 0) - 1 <= MaxIds
  /\ documents' = LoadedDocuments(data_path_exists, content, nextId)
  /\ nextId' = nextId + Len(documents')
  /\ op' = "load_document"
  /\ err' = "none"
  /\ arg' = <<>>
  /\ ret' = documents'
  /\ UNCHANGED <<envVars, chunks, parent_child_map, indexVars, systemVars,
                 queryVars>>

chunk_document ==
  /\ nextId + SectionsIn(documents) - 1 <= MaxIds
  /\ op' = "chunk_document"
  /\ arg' = <<>>
  /\ err' = ChunkDocumentError(documents)
  /\ IF err' = "none"
     THEN LET r == ChunkedDocuments(documents, parent_child_map, nextId)
          IN /\ chunks' = r.chunks
             /\ parent_child_map' = r.map
             /\ nextId' = r.nid
             /\ ret' = r.chunks
     ELSE /\ UNCHANGED <<chunks, parent_child_map, nextId>>
          /\ ret' = <<>>
  /\ UNCHANGED <<envVars, documents, indexVars, systemVars, queryVars>>

\* the chunks a caller can hand to get_parent_document, by the one field it
\* reads: a chunk of a loaded parent, of a parent no longer (or never)
\* loaded, or with no parent_id
ChildChunks ==
  {[parent_id |-> p] : p \in DocIds(documents) \cup {NoParent, MaxIds + 1}}

\* get_parent_document reads and returns: a call right after another one
\* reaches nothing the first did not, and is not explored
get_parent_document ==
  /\ op # "get_parent_document"
  /\ \E child_chunks \in SeqsUpTo(ChildChunks, MaxIn) :
    /\ op' = "get_parent_document"
    /\ err' = "none"
    /\ arg' = child_chunks
    /\ ret' = GetParentDocument(documents, child_chunks)
    /\ UNCHANGED <<envVars, nextId, storeVars, indexVars, systemVars,
                   queryVars>>

\* the environment creates or removes the data directory
env_data_path ==
  /\ data_path_exists' = ~data_path_exists
  /\ op' = "env"
  /\ err' = "none"
  /\ arg' = <<>>
  /\ ret' = <<>>
  /\ UNCHANGED <<content, nextId, storeVars, indexVars, systemVars,
                 queryVars>>

Next ==
  \/ load_document
  \/ chunk_document
  \/ get_parent_document
  \/ env_data_path

Spec == Init /\ [][Next]_vars

(***************************************************************************)
(* Claims about the chunk store.                                           *)
(***************************************************************************)
\* the place of the first chunk of child_chunks that names parent p
FirstReference(child_chunks, p) ==
  CHOOSE i \in DOMAIN child_chunks :
    /\ child_chunks[i].parent_id = p
    /\ \A j \in DOMAIN child_chunks : child_chunks[j].parent_id = p => i <= j

Referenced(child_chunks) ==
  {child_chunks[i].parent_id : i \in DOMAIN child_chunks} \ {NoParent}

\* C3: get_parent_document returns every referenced parent that is in the
\* store exactly once, by descending relevance count, parents of equal count
\* in the order of their first referencing chunk; [c1(P1), c2(P2), c3(P1)]
\* yields [P1, P2].
C3_ParentsByRelevanceThenEncounter ==
  op = "get_parent_document" =>
    /\ Injective(ret)
    /\ Range(ret) = {documents[i] : i \in {j \in DOMAIN documents :
                        documents[j].parent_id \in Referenced(arg)}}
    /\ \A i, j \in DOMAIN ret : i < j =>
         LET ri == Relevance(arg, ret[i].parent_id)
             rj == Relevance(arg, ret[j].parent_id)
         IN \/ ri > rj
            \/ /\ ri = rj
               /\ FirstReference(arg, ret[i].parent_id)
                    < FirstReference(arg, ret[j].parent_id)
    /\ \A a, b \in DOMAIN documents :
         (a # b /\ arg = <<[parent_id |-> documents[a].parent_id],
                           [parent_id |-> documents[b].parent_id],
                           [parent_id |-> documents[a].parent_id]>>)
           => ret = <<documents[a], documents[b]>>

\* C3 witness: a call with [c1(P), c2(Q), c3(P)], where P is the second
\* loaded document and Q the first, has returned both parents.
C3_Witness ==
  /\ op = "get_parent_document"
  /\ Len(documents) >= 2
  /\ arg = <<[parent_id |-> documents[2].parent_id],
             [parent_id |-> documents[1].parent_id],
             [parent_id |-> documents[2].parent_id]>>
  /\ Len(ret) = 2

\* C4: every chunk the store holds is mapped to its parent_id by
\* parent_child_map, and that parent is one of the loaded documents.
C4_HeldChunksHavePresentParent ==
  \A i \in DOMAIN chunks :
    /\ chunks[i].chunk_id \in DOMAIN parent_child_map
    /\ parent_child_map[chunks[i].chunk_id] = chunks[i].parent_id
    /\ chunks[i].parent_id \in DocIds(documents)

\* the parent and the sequence index of each chunk, in order
SequenceStructure(cs) ==
  [i \in DOMAIN cs |-> <<cs[i].parent_id, cs[i].chunk_index>>]

\* C5: a successful chunk_document leaves parent_child_map with exactly the
\* ids of the chunks it produced, and, on a store already chunked from the
\* loaded documents, a chunk set of the same size and the same sequence
\* indices per parent as before.
C5_RechunkOverwrites ==
  [][(op' = "chunk_document" /\ err' = "none") =>
       /\ ChunkIds(chunks') = ChunkIds(ret')
       /\ DOMAIN parent_child_map' = ChunkIds(chunks')
       /\ (chunks # <<>> /\ \A i \in DOMAIN chunks :
                               chunks[i].parent_id \in DocIds(documents))
            => /\ Len(chunks') = Len(chunks)
               /\ SequenceStructure(chunks') = SequenceStructure(chunks)]_vars

\* C6: load_document on a missing data directory raises the not-found
\* condition and leaves the store's documents as they were.
C6_LoadMissingRootFails ==
  [][(op' = "load_document" /\ ~data_path_exists) =>
       /\ err' = "FileNotFoundError"
       /\ documents' = documents]_vars

\* C7: chunk_document with no documents loaded raises ValueError and leaves
\* documents, chunks and parent_child_map as they were; with documents loaded
\* it does not raise it.
C7_ChunkRequiresDocuments ==
  [][op' = "chunk_document" =>
       IF documents = <<>>
       THEN /\ err' = "ValueError"
            /\ UNCHANGED <<documents, chunks, parent_child_map>>
       ELSE err' # "ValueError"]_vars

\* C7 witness: chunk_document has raised on a store that holds chunks of an
\* earlier pass and no documents.
C7_Witness ==
  /\ op = "chunk_document"
  /\ err = "ValueError"
  /\ documents = <<>>
  /\ chunks # <<>>

(***************************************************************************)
(* The store after load_document and chunk_document over a directory whose *)
(* first file has NumChunks sections and whose other files are empty.      *)
(***************************************************************************)
ChunkedContent == [f \in Files |-> IF f = 1 THEN NumChunks ELSE 0]

InitChunked ==
  LET docs == LoadedDocuments(TRUE, ChunkedContent, 1)
      r == ChunkedDocuments(docs, EmptyMap, NumFiles + 1)
  IN /\ data_path_exists = TRUE
     /\ content = ChunkedContent
     /\ nextId = r.nid
     /\ documents = docs
     /\ chunks = r.chunks
     /\ parent_child_map = r.map

(***************************************************************************)
(* The fusion step: hybrid_search on a retrieval module made of the index  *)
(* built over the store's chunks and of the chunks themselves; the two     *)
(* retrievers answer a query with any ranked lists.                        *)
(***************************************************************************)
TopKs == (0 - MaxTopK)..MaxTopK

\* the query of a behaviour: what the two retrievers answer it with, and the
\* caller's top_k
InitFusion ==
  /\ InitChunked
  /\ vector_store = [built |-> TRUE, docs |-> FaissDocs(chunks)]
  /\ saved_index = vector_store
  /\ pc = "serving"
  /\ retrieval_module = [ready |-> TRUE, vector_store |-> vector_store.docs,
                         chunks |-> chunks]
  /\ op = "query"
  /\ err = "none"
  /\ arg = <<>>
  /\ top_k \in TopKs
  /\ vector_docs \in RankedLists(retrieval_module.vector_store)
  /\ bm25_docs \in RankedLists(Bm25Docs(retrieval_module.chunks))
  /\ reranked = <<>>
  /\ ret = <<>>

hybrid_search ==
  /\ retrieval_module.ready
  /\ op = "query"
  /\ op' = "hybrid_search"
  /\ err' = "none"
  /\ reranked' = RrfRerank(vector_docs, bm25_docs)
  /\ ret' = HybridSearch(vector_docs, bm25_docs, top_k)
  /\ UNCHANGED <<envVars, nextId, storeVars, indexVars, systemVars, arg, top_k,
                 vector_docs, bm25_docs>>

NextFusion == hybrid_search

SpecFusion == InitFusion /\ [][NextFusion]_vars

IdsOf(docs) == [i \in DOMAIN docs |-> docs[i].chunk_id]

\* C1: the fused ranking holds every chunk of either list exactly once.
C1_FusedIsUnionByChunkId ==
  op = "hybrid_search" =>
    /\ Injective(IdsOf(reranked))
    /\ Range(IdsOf(reranked)) = Range(IdsOf(vector_docs)) \cup Range(IdsOf(bm25_docs))

\* the contribution of one list to a chunk's fused score
Contribution(docs, c) ==
  IF c \in Range(IdsOf(docs))
  THEN <<1, RRF_K + (CHOOSE i \in DOMAIN docs : docs[i].chunk_id = c)>>
  ELSE <<0, 1>>

FusedScore(c) ==
  FracAdd(Contribution(vector_docs, c), Contribution(bm25_docs, c))

FirstSeenAt(c) ==
  LET both == IdsOf(vector_docs \o bm25_docs)
  IN CHOOSE i \in DOMAIN both :
       both[i] = c /\ \A j \in DOMAIN both : both[j] = c => i <= j

\* C2: the fused ranking is ordered by descending fused score per chunk id,
\* chunks of equal score in first-seen order over semantic then lexical;
\* semantic [A,B,C] and lexical [B,C,D] give B, C, A, D.
C2_FusedOrderedByScore ==
  op = "hybrid_search" =>
    /\ \A i, j \in DOMAIN reranked : i < j =>
         LET ci == reranked[i].chunk_id
             cj == reranked[j].chunk_id
         IN \/ FracLess(FusedScore(cj), FusedScore(ci))
            \/ /\ ~FracLess(FusedScore(ci), FusedScore(cj))
               /\ FirstSeenAt(ci) < FirstSeenAt(cj)
    /\ \A A, B, C, D \in ChunkIds(chunks) :
         (IdsOf(vector_docs) = <<A, B, C>> /\ IdsOf(bm25_docs) = <<B, C, D>>
            /\ Cardinality({A, B, C, D}) = 4)
           => IdsOf(reranked) = <<B, C, A, D>>

\* C9: hybrid_search rejects top_k <= 0 and returns nothing; with top_k >= 1
\* it returns the first top_k chunks of the fused ranking, fewer when the
\* ranking is shorter, and nothing, without error, when both searches
\* returned nothing.
C9_TopKValidated ==
  op = "hybrid_search" =>
    IF top_k <= 0
    THEN err = "ValueError" /\ ret = <<>>
    ELSE /\ err = "none"
         /\ ret = SubSeq(reranked, 1,
                         IF top_k < Len(reranked) THEN top_k ELSE Len(reranked))
         /\ (vector_docs = <<>> /\ bm25_docs = <<>>) => ret = <<>>

(***************************************************************************)
(* The index module on its own: any sequence of build_vector_index,        *)
(* save_index and load_index on one IndexConstructionModule, over chunks   *)
(* of the store; the embedding and index collaborator may fail a build.    *)
(***************************************************************************)
InitIndex ==
  /\ InitChunked
  /\ vector_store = NoStore
  /\ saved_index = NoStore
  /\ pc = "serving"
  /\ retrieval_module = NoRetrieval
  /\ op = "init"
  /\ err = "none"
  /\ arg = <<>>
  /\ top_k = 0
  /\ vector_docs = <<>>
  /\ bm25_docs = <<>>
  /\ reranked = <<>>
  /\ ret = <<>>

\* the chunk lists a caller hands to build_vector_index: the empty list and
\* the runs of up to MaxBuild of the store's chunks
ChunkLists ==
  {SubSeq(chunks, i, j) : i \in 1..(Len(chunks) + 1),
                          j \in 0..Len(chunks)} \cap SeqsUpTo(Range(chunks), MaxBuild)

build_vector_index ==
  \E cs \in ChunkLists, collaborator_fails \in BOOLEAN :
    LET r == BuildVectorIndex(vector_store, cs, collaborator_fails)
    IN /\ op' = "build_vector_index"
       /\ arg' = cs
       /\ err' = r.err
       /\ vector_store' = r.store
       /\ ret' = IF r.err = "none" THEN r.store.docs ELSE <<>>
       /\ UNCHANGED <<envVars, nextId, storeVars, saved_index, systemVars,
                      queryVars>>

save_index ==
  LET r == SaveIndex(vector_store, saved_index)
  IN /\ op' = "save_index"
     /\ arg' = <<>>
     /\ err' = r.err
     /\ saved_index' = r.saved
     /\ ret' = <<>>
     /\ UNCHANGED <<envVars, nextId, storeVars, vector_store, systemVars,
                    queryVars>>

load_index ==
  LET r == LoadIndex(vector_store, saved_index)
  IN /\ op' = "load_index"
     /\ arg' = <<>>
     /\ err' = "none"
     /\ vector_store' = r.store
     /\ ret' = IF r.found THEN r.store.docs ELSE <<>>
     /\ UNCHANGED <<envVars, nextId, storeVars, saved_index, systemVars,
                    queryVars>>

NextIndex ==
  \/ build_vector_index
  \/ save_index
  \/ load_index

SpecIndex == InitIndex /\ [][NextIndex]_vars

\* C8: build_vector_index of an empty chunk list raises ValueError, and a
\* build that raises, for an empty list or in the collaborator, leaves
\* vector_store as it was.
C8_FailedBuildKeepsOldIndex ==
  [][op' = "build_vector_index" =>
       /\ arg' = <<>> => err' = "ValueError"
       /\ err' # "none" => vector_store' = vector_store]_vars

\* C8 witness: a build of an empty list has raised on a module that holds an
\* index built earlier.
C8_Witness ==
  /\ op = "build_vector_index"
  /\ arg = <<>>
  /\ err = "ValueError"
  /\ vector_store.built

(***************************************************************************)
(* The pipeline of run_interactive, one process after another over the     *)
(* same data directory and the same saved index: RecipeRAGSystem() and     *)
(* initialize_system, build_knowledge_base once, then the question loop.   *)
(* main.py names the store's operations load_documents and                 *)
(* chunk_documents and the retrieval module's first parameter              *)
(* vector_store; they are bound here to load_document, chunk_document and  *)
(* rector_store, the definitions the modules have.  Every file has at      *)
(* least one section, DEEPSEEK_API_KEY is set, and the data directory is   *)
(* there, or missing, for the whole behaviour.                             *)
(***************************************************************************)
InitPipeline ==
  /\ data_path_exists \in BOOLEAN
  /\ content \in [Files -> 1..MaxSections]
  /\ InitCommon

\* a new process: RecipeRAGSystem.__init__, then initialize_system
start_system ==
  /\ op' = "start_system"
  /\ arg' = <<>>
  /\ ret' = <<>>
  /\ documents' = <<>>
  /\ chunks' = <<>>
  /\ parent_child_map' = EmptyMap
  /\ vector_store' = NoStore
  /\ retrieval_module' = NoRetrieval
  /\ top_k' = 0
  /\ vector_docs' = <<>>
  /\ bm25_docs' = <<>>
  /\ reranked' = <<>>
  /\ IF data_path_exists
     THEN err' = "none" /\ pc' = "initialized"
     ELSE err' = "FileNotFoundError" /\ pc' = "exited"
  /\ UNCHANGED <<envVars, nextId, saved_index>>

build_knowledge_base ==
  \E collaborator_fails \in BOOLEAN :
    LET loaded == LoadIndex(vector_store, saved_index)
        docs == LoadedDocuments(data_path_exists, content, nextId)
        chunk_err == ChunkDocumentError(docs)
        r == ChunkedDocuments(docs, parent_child_map, nextId + Len(docs))
        built == BuildVectorIndex(loaded.store, r.chunks, collaborator_fails)
        saved == SaveIndex(built.store, saved_index)
    IN /\ pc = "initialized"
       /\ nextId + Len(docs) + SectionsIn(docs) - 1 <= MaxIds
       /\ op' = "build_knowledge_base"
       /\ arg' = <<>>
       /\ ret' = <<>>
       /\ documents' = docs
       /\ IF chunk_err # "none"
          THEN /\ err' = chunk_err
               /\ pc' = "exited"
               /\ nextId' = nextId + Len(docs)
               /\ vector_store' = loaded.store
               /\ UNCHANGED <<chunks, parent_child_map, saved_index,
                              retrieval_module>>
          ELSE /\ chunks' = r.chunks
               /\ parent_child_map' = r.map
               /\ nextId' = r.nid
               /\ IF loaded.found
                  THEN /\ err' = "none"
                       /\ pc' = "serving"
                       /\ vector_store' = loaded.store
                       /\ retrieval_module' =
                            [ready |-> TRUE, vector_store |-> loaded.store.docs,
                             chunks |-> r.chunks]
                       /\ UNCHANGED saved_index
                  ELSE IF built.err # "none"
                  THEN /\ err' = built.err
                       /\ pc' = "exited"
                       /\ vector_store' = built.store
                       /\ UNCHANGED <<saved_index, retrieval_module>>
                  ELSE /\ err' = saved.err
                       /\ pc' = "serving"
                       /\ vector_store' = built.store
                       /\ saved_index' = saved.saved
                       /\ retrieval_module' =
                            [ready |-> TRUE, vector_store |-> built.store.docs,
                             chunks |-> r.chunks]
       /\ UNCHANGED <<envVars, queryVars>>

\* ask_question: hybrid_search, then get_parent_document of what it returned
\* (arg).  It reads and returns: a question right after another one reaches
\* nothing the first did not, and is not explored.
ask_question ==
  /\ pc = "serving"
  /\ op # "ask_question"
  /\ \E v \in RankedLists(retrieval_module.vector_store),
        b \in RankedLists(Bm25Docs(retrieval_module.chunks)),
        k \in 1..MaxTopK :
    /\ op' = "ask_question"
    /\ err' = "none"
    /\ top_k' = k
    /\ vector_docs' = v
    /\ bm25_docs' = b
    /\ reranked' = RrfRerank(v, b)
    /\ arg' = HybridSearch(v, b, k)
    /\ ret' = GetParentDocument(documents, arg')
    /\ UNCHANGED <<envVars, nextId, storeVars, indexVars, systemVars>>

NextPipeline ==
  \/ start_system
  \/ build_knowledge_base
  \/ ask_question

SpecPipeline == InitPipeline /\ [][NextPipeline]_vars

====
